---------------------------- MODULE Spec2Model ----------------------------
(***************************************************************************)
(* Probe-and-status HTTP service (src/src/app.py): a Flask application     *)
(* with six routes, two error handlers and two request hooks.              *)
(*                                                                         *)
(* Python and JSON values are tagged tuples:                               *)
(*   <<"null">>  <<"bool", b>>  <<"num", n>>  <<"str", s>>                 *)
(*   <<"float", r>>   a Python float, r its repr ("1.5", "inf", "nan")     *)
(*   <<"long", d>>    a Python int of d decimal digits, too long for n     *)
(*   <<"arr", seq>>  <<"obj", f>>   (f a function from key strings)        *)
(* JSON text is a sequence of lexical tokens [k, s, n]; whitespace between *)
(* tokens is not represented.  Text and HTML bodies are sequences of       *)
(* tokens of kind "text", "nl" and "html".                                 *)
(***************************************************************************)
EXTENDS Integers, Sequences, FiniteSets, TLC

----------------------------------------------------------------------------
(* Values *)

Null == <<"null">>
Bool(b) == <<"bool", b>>
Num(n) == <<"num", n>>
Float(r) == <<"float", r>>
Long(d) == <<"long", d>>
Str(s) == <<"str", s>>
Arr(a) == <<"arr", a>>
Obj(f) == <<"obj", f>>
None == Null

Tag(v) == v[1]

(* Tokens.  A "num" token is an integer literal with value n, a "digits"   *)
(* token an integer literal of n digits, a "float" token a number literal  *)
(* with a fraction or an exponent, spelled s.                              *)
Tok(k) == [k |-> k, s |-> "", n |-> 0]
NumTok(n) == [k |-> "num", s |-> "", n |-> n]
DigitsTok(d) == [k |-> "digits", s |-> "", n |-> d]
FloatTok(s) == [k |-> "float", s |-> s, n |-> 0]
StrTok(s) == [k |-> "str", s |-> s, n |-> 0]
Junk(s) == [k |-> "junk", s |-> s, n |-> 0]
Word(s) == [k |-> "text", s |-> s, n |-> 0]
Html(s) == [k |-> "html", s |-> s, n |-> 0]
NL == Tok("nl")

----------------------------------------------------------------------------
(* Limits of the interpreter that json.loads and json.dumps run into.      *)
(* The scanner and the encoder recurse once per level of nesting and raise *)
(* RecursionError when the interpreter's recursion limit is reached; the   *)
(* number of levels left (about a thousand, less the frames in use) is     *)
(* scaled down here.  int() of more than int_max_str_digits digits raises  *)
(* ValueError.                                                             *)

LoadsDepth == 6
DumpsDepth == 6
int_max_str_digits == 4300

DecodeRecursionText(kind) ==
    IF kind = "array"
    THEN "maximum recursion depth exceeded while decoding a JSON array from a unicode string"
    ELSE "maximum recursion depth exceeded while decoding a JSON object from a unicode string"
EncodeRecursionText == "maximum recursion depth exceeded while encoding a JSON object"

(* float(s) of a number literal, as the repr of the result *)
float(s) ==
    CASE s = "1.5" -> "1.5"
      [] s = "1e2" -> "100.0"
      [] s = "100.0" -> "100.0"
      [] s = "1e400" -> "inf"
      [] s = "-1e400" -> "-inf"

----------------------------------------------------------------------------
(* json.dumps: a value to its JSON text.  The order in which an object's   *)
(* members are written is fixed by the serializer; any fixed order gives   *)
(* the same parsed value.  Floats that are no numbers are written as the   *)
(* constants NaN, Infinity and -Infinity (allow_nan is left on).           *)

RECURSIVE dumps(_)
RECURSIVE dumpsItems(_)
RECURSIVE dumpsMembers(_)

dumpsItems(a) ==
    IF Len(a) = 0 THEN <<>>
    ELSE IF Len(a) = 1 THEN dumps(a[1])
    ELSE dumps(a[1]) \o <<Tok(",")>> \o dumpsItems(Tail(a))

dumpsMembers(f) ==
    IF DOMAIN f = {} THEN <<>>
    ELSE LET key == CHOOSE x \in DOMAIN f : TRUE
             rest == [x \in DOMAIN f \ {key} |-> f[x]]
             one == <<StrTok(key), Tok(":")>> \o dumps(f[key])
         IN IF DOMAIN rest = {} THEN one
            ELSE one \o <<Tok(",")>> \o dumpsMembers(rest)

dumps(v) ==
    CASE Tag(v) = "null" -> <<Tok("null")>>
      [] Tag(v) = "bool" -> <<Tok(IF v[2] THEN "true" ELSE "false")>>
      [] Tag(v) = "num" -> <<NumTok(v[2])>>
      [] Tag(v) = "long" -> <<DigitsTok(v[2])>>
      [] Tag(v) = "float" ->
           CASE v[2] = "nan" -> <<Tok("NaN")>>
             [] v[2] = "inf" -> <<Tok("Infinity")>>
             [] v[2] = "-inf" -> <<Tok("-Infinity")>>
             [] OTHER -> <<FloatTok(v[2])>>
      [] Tag(v) = "str" -> <<StrTok(v[2])>>
      [] Tag(v) = "arr" -> <<Tok("[")>> \o dumpsItems(v[2]) \o <<Tok("]")>>
      [] Tag(v) = "obj" -> <<Tok("{")>> \o dumpsMembers(v[2]) \o <<Tok("}")>>

(* levels of nesting the encoder descends for a value *)
RECURSIVE Depth(_)
Depth(v) ==
    LET inner(f) == {Depth(f[x]) : x \in DOMAIN f}
        deepest(S) == IF S = {} THEN 0 ELSE CHOOSE d \in S : \A e \in S : e <= d
    IN IF Tag(v) \in {"arr", "obj"} THEN 1 + deepest(inner(v[2])) ELSE 0

(* the text of the exception json.dumps raises for a value, "" if none *)
dumps_raised(v) == IF Depth(v) > DumpsDepth THEN EncodeRecursionText ELSE ""

(* json.loads: recursive descent over the tokens.  A parse result is       *)
(* [ok, exc, msg, val, rest]; exc is the class of the exception raised     *)
(* ("" if none).  A repeated object key keeps the last value; the          *)
(* constants NaN, Infinity and -Infinity are accepted; depth is the number *)
(* of arrays and objects already entered.                                  *)

ParseOk(v, rest) == [ok |-> TRUE, exc |-> "", msg |-> "", val |-> v, rest |-> rest]
ParseFail == [ok |-> FALSE, exc |-> "ValueError", msg |-> "", val |-> Null, rest |-> <<>>]
ParseRecursion(kind) ==
    [ok |-> FALSE, exc |-> "RecursionError", msg |-> DecodeRecursionText(kind),
     val |-> Null, rest |-> <<>>]

RECURSIVE ParseValue(_, _)
RECURSIVE ParseItems(_, _, _)
RECURSIVE ParseMembers(_, _, _)

ParseItems(toks, acc, depth) ==
    LET r == ParseValue(toks, depth) IN
    IF ~r.ok THEN r
    ELSE IF r.rest = <<>> THEN ParseFail
    ELSE LET nxt == Head(r.rest).k
             got == Append(acc, r.val)
         IN CASE nxt = "]" -> ParseOk(Arr(got), Tail(r.rest))
              [] nxt = "," -> ParseItems(Tail(r.rest), got, depth)
              [] OTHER -> ParseFail

ParseMembers(toks, acc, depth) ==
    IF Len(toks) < 2 \/ toks[1].k # "str" \/ toks[2].k # ":" THEN ParseFail
    ELSE LET r == ParseValue(Tail(Tail(toks)), depth) IN
         IF ~r.ok THEN r
         ELSE IF r.rest = <<>> THEN ParseFail
         ELSE LET nxt == Head(r.rest).k
                  got == (toks[1].s :> r.val) @@ acc
              IN CASE nxt = "}" -> ParseOk(Obj(got), Tail(r.rest))
                   [] nxt = "," -> ParseMembers(Tail(r.rest), got, depth)
                   [] OTHER -> ParseFail

ParseValue(toks, depth) ==
    IF toks = <<>> THEN ParseFail
    ELSE LET t == Head(toks)
             rest == Tail(toks)
         IN CASE t.k = "null" -> ParseOk(Null, rest)
              [] t.k = "true" -> ParseOk(Bool(TRUE), rest)
              [] t.k = "false" -> ParseOk(Bool(FALSE), rest)
              [] t.k = "NaN" -> ParseOk(Float("nan"), rest)
              [] t.k = "Infinity" -> ParseOk(Float("inf"), rest)
              [] t.k = "-Infinity" -> ParseOk(Float("-inf"), rest)
              [] t.k = "num" -> ParseOk(Num(t.n), rest)
              [] t.k = "digits" ->
                   IF t.n > int_max_str_digits THEN ParseFail
                   ELSE ParseOk(Long(t.n), rest)
              [] t.k = "float" -> ParseOk(Float(float(t.s)), rest)
              [] t.k = "str" -> ParseOk(Str(t.s), rest)
              [] t.k = "[" ->
                   IF depth >= LoadsDepth THEN ParseRecursion("array")
                   ELSE IF rest # <<>> /\ Head(rest).k = "]"
                   THEN ParseOk(Arr(<<>>), Tail(rest))
                   ELSE ParseItems(rest, <<>>, depth + 1)
              [] t.k = "{" ->
                   IF depth >= LoadsDepth THEN ParseRecursion("object")
                   ELSE IF rest # <<>> /\ Head(rest).k = "}"
                   THEN ParseOk(Obj(<<>>), Tail(rest))
                   ELSE ParseMembers(rest, <<>>, depth + 1)
              [] OTHER -> ParseFail

loads(toks) ==
    LET r == ParseValue(toks, 0) IN
    IF r.ok /\ r.rest # <<>> THEN ParseFail ELSE r

----------------------------------------------------------------------------
(* Bounds of the model *)

MaxInFlight == 2

(* Program constants *)

DefaultPort == 8080
APP_NAME == "kubernetes-platform-stack"
APP_VERSION == "1.0.0"

----------------------------------------------------------------------------
(* State *)

VARIABLES
    environ,      \* os.environ of the process: variable name -> Str(s) or Unset
    startEnviron, \* os.environ as it was when the process started
    ENVIRONMENT,  \* module global, read from the environment at import
    logLevel,     \* level given to logging.basicConfig at import
    port,         \* port the listener is bound to (local of __main__)
    inflight,     \* request slot -> the request being handled and its locals
    emitted       \* log records written by the last step

vars == <<environ, startEnviron, ENVIRONMENT, logLevel, port, inflight, emitted>>

Slots == 1..MaxInFlight

----------------------------------------------------------------------------
(* Process environment *)

Unset == <<"unset">>
EnvVars == {"PORT", "LOG_LEVEL", "ENVIRONMENT"}
EnvValues(k) ==
    CASE k = "PORT" -> {Unset, Str("9090")}
      [] k = "LOG_LEVEL" -> {Unset, Str("DEBUG")}
      [] k = "ENVIRONMENT" -> {Unset, Str("production")}
Environs == {e \in [EnvVars -> {Unset, Str("9090"), Str("DEBUG"), Str("production")}] :
                \A k \in EnvVars : e[k] \in EnvValues(k)}

(* os.getenv(key, default) *)
getenv(key, default) == IF environ[key] = Unset THEN default ELSE environ[key]

(* int(x) of an int or of a decimal string *)
int(v) ==
    CASE Tag(v) = "num" -> v[2]
      [] v = Str("9090") -> 9090
      [] v = Str("8080") -> 8080

(* logging: numeric value of a level name, and a record if the logger's    *)
(* threshold lets it through                                               *)
LevelNo(name) ==
    CASE name = "DEBUG" -> 10
      [] name = "INFO" -> 20
      [] name = "ERROR" -> 40

Log(level, msg) ==
    IF LevelNo(level) >= LevelNo(logLevel)
    THEN <<[level |-> level, msg |-> msg]>>
    ELSE <<>>

(* a record whose message carries a formatted Python value *)
LogValue(level, msg, value) ==
    IF LevelNo(level) >= LevelNo(logLevel)
    THEN <<[level |-> level, msg |-> msg, value |-> value]>>
    ELSE <<>>

(* datetime.utcnow().isoformat(): the fraction is written only when the    *)
(* microsecond field is not zero                                           *)
Instants == {[second |-> 0, microsecond |-> 0], [second |-> 0, microsecond |-> 1]}
isoformat(dt) ==
    IF dt.microsecond = 0 THEN "2024-01-01T00:00:00"
    ELSE "2024-01-01T00:00:00.000001"

----------------------------------------------------------------------------
(* Requests.  A path is the sequence of its segments: "/api/v1/status" is  *)
(* <<"api","v1","status">>, "/health/" is <<"health","">>.  fault: a call  *)
(* the view function makes while building its answer (utcnow, jsonify)     *)
(* raises an exception that is no HTTP error, with text FaultText.         *)

Request(method, path, ctype, body, fault) ==
    [method |-> method, path |-> path, ctype |-> ctype, body |-> body, fault |-> fault]
NoRequest == Request("", <<>>, "", <<>>, FALSE)

Response(status, ctype, body) == [status |-> status, ctype |-> ctype, body |-> body]
NoResponse == Response(0, "", <<>>)

(* flask.jsonify(value), status *)
jsonify(v, status) == Response(status, "application/json", dumps(v))

(* Request.is_json: application/json or application/*+json *)
JsonMimetypes == {"application/json", "application/vnd.api+json"}
is_json(ctype) == ctype \in JsonMimetypes

UnsupportedMediaTypeText ==
    "415 Unsupported Media Type: Did not attempt to load JSON data because the request Content-Type was not 'application/json'."
BadRequestText ==
    "400 Bad Request: The browser (or proxy) sent a request that this server could not understand."
FaultText == "maximum recursion depth exceeded"

(* request.get_json(): [raised, val], raised the text of the exception.    *)
(* A body of another content type is refused with UnsupportedMediaType; a  *)
(* ValueError of json.loads is turned into BadRequest; any other exception *)
(* of json.loads (RecursionError) passes through as it is.                 *)
get_json(req) ==
    IF ~is_json(req.ctype) THEN [raised |-> UnsupportedMediaTypeText, val |-> None]
    ELSE LET r == loads(req.body) IN
         CASE r.exc = "" -> [raised |-> "", val |-> r.val]
           [] r.exc = "ValueError" -> [raised |-> BadRequestText, val |-> None]
           [] OTHER -> [raised |-> r.msg, val |-> None]

----------------------------------------------------------------------------
(* Routing: the URL map holds the six decorated rules and the static rule  *)
(* that Flask(__name__) registers.  Every rule also answers OPTIONS, and   *)
(* every rule with GET also HEAD.                                          *)

Rule(path, methods, endpoint) == [path |-> path, methods |-> methods, endpoint |-> endpoint]

url_map ==
    { Rule(<<"health">>, {"GET"}, "health"),
      Rule(<<"ready">>, {"GET"}, "ready"),
      Rule(<<"api", "v1", "status">>, {"GET"}, "status"),
      Rule(<<"api", "v1", "echo">>, {"POST"}, "echo"),
      Rule(<<"metrics">>, {"GET"}, "metrics"),
      Rule(<<"api", "v1", "config">>, {"GET"}, "config"),
      Rule(<<"static">>, {"GET"}, "static") }

RuleMethods(rule) ==
    rule.methods \cup {"OPTIONS"} \cup (IF "GET" \in rule.methods THEN {"HEAD"} ELSE {})

(* "/static/<path:filename>": a first segment "static" and a file name     *)
(* that does not start with a slash                                        *)
RuleMatches(rule, path) ==
    IF rule.endpoint = "static"
    THEN Len(path) >= 2 /\ path[1] = "static" /\ path[2] # ""
    ELSE path = rule.path

(* repeated slashes merged: the empty segments before the last are dropped *)
RECURSIVE MergeSlashes(_)
MergeSlashes(path) ==
    IF Len(path) <= 1 THEN path
    ELSE IF Head(path) = "" THEN MergeSlashes(Tail(path))
    ELSE <<Head(path)>> \o MergeSlashes(Tail(path))

(* a router that looks up (method, path) pairs: a method the rule does    *)
(* not accept is no match at all                                           *)
match_Mut(method, path) ==
    LET hit(q) == {r \in url_map : RuleMatches(r, q) /\ method \in RuleMethods(r)}
        merged == MergeSlashes(path)
    IN IF hit(path) # {}
       THEN [kind |-> "endpoint", endpoint |-> (CHOOSE r \in hit(path) : TRUE).endpoint]
       ELSE IF merged # path /\ hit(merged) # {}
       THEN [kind |-> "RequestRedirect", endpoint |-> ""]
       ELSE [kind |-> "NotFound", endpoint |-> ""]

(* MapAdapter.match(path, method) *)
match(method, path) ==
    LET byPath(q) == {r \in url_map : RuleMatches(r, q)}
        hit(q) == {r \in byPath(q) : method \in RuleMethods(r)}
        merged == MergeSlashes(path)
    IN IF hit(path) # {}
       THEN [kind |-> "endpoint", endpoint |-> (CHOOSE r \in hit(path) : TRUE).endpoint]
       ELSE IF byPath(path) # {}
       THEN [kind |-> "MethodNotAllowed", endpoint |-> ""]
       ELSE IF merged # path /\ hit(merged) # {}
       THEN [kind |-> "RequestRedirect", endpoint |-> ""]
       ELSE IF merged # path /\ byPath(merged) # {}
       THEN [kind |-> "MethodNotAllowed", endpoint |-> ""]
       ELSE [kind |-> "NotFound", endpoint |-> ""]

----------------------------------------------------------------------------
(* View functions.  t is the instant datetime.utcnow() returns.            *)

health(t) ==
    jsonify(Obj([status |-> Str("healthy"),
                 timestamp |-> Str(isoformat(t))]), 200)

(* readiness that reports the service busy while another request holds a  *)
(* computed response                                                       *)
ready_Mut(t) ==
    jsonify(Obj([ready |-> Bool(\A s \in Slots : inflight[s].pc # "responded"),
                 timestamp |-> Str(isoformat(t))]), 200)

ready(t) ==
    jsonify(Obj([ready |-> Bool(TRUE),
                 timestamp |-> Str(isoformat(t))]), 200)

(* the environment name read from os.environ on every request *)
status_Mut(t) ==
    jsonify(Obj([app |-> Str(APP_NAME),
                 version |-> Str(APP_VERSION),
                 environment |-> getenv("ENVIRONMENT", Str("unknown")),
                 timestamp |-> Str(isoformat(t))]), 200)

status(t) ==
    jsonify(Obj([app |-> Str(APP_NAME),
                 version |-> Str(APP_VERSION),
                 environment |-> Str(ENVIRONMENT),
                 timestamp |-> Str(isoformat(t))]), 200)

(* echo, lines 64-66: the except clause *)
echo_except(text) ==
    [resp |-> jsonify(Obj([error |-> Str(text)]), 400),
     log |-> Log("ERROR", <<"Error in echo endpoint", text>>)]

(* echo, lines 56-58: get_json, then logger.info with the value formatted  *)
(* into the message (formatting succeeds for every value loads returns).   *)
(* [raised, data, log]: when get_json raises nothing is logged here.       *)
echo_try(req) ==
    LET got == get_json(req) IN
    IF got.raised # ""
    THEN [raised |-> got.raised, data |-> None, log |-> <<>>]
    ELSE [raised |-> "", data |-> got.val,
          log |-> LogValue("INFO", <<"Echo request received">>, got.val)]

(* echo, lines 59-63: utcnow and jsonify of the answer; what they raise is *)
(* caught by the except clause like everything else in the try block.      *)
echo_return(data, fault, t) ==
    LET answer == Obj([message |-> Str("echo received"),
                       data |-> data,
                       timestamp |-> Str(isoformat(t))])
        raised == IF fault THEN FaultText ELSE dumps_raised(answer)
    IN IF raised # "" THEN echo_except(raised)
       ELSE [resp |-> jsonify(answer, 200), log |-> <<>>]

(* the whole view: [resp, log] *)
echo(req, t) ==
    LET a == echo_try(req) IN
    IF a.raised # "" THEN echo_except(a.raised)
    ELSE LET b == echo_return(a.data, req.fault, t) IN
         [resp |-> b.resp, log |-> a.log \o b.log]

metrics_data ==
    << <<"#", "HELP", "app_requests_total", "Total", "application", "requests">>,
       <<"#", "TYPE", "app_requests_total", "counter">>,
       <<"app_requests_total{method=\"GET\",path=\"/health\"}", "100">>,
       <<"app_requests_total{method=\"GET\",path=\"/ready\"}", "50">>,
       <<"app_requests_total{method=\"GET\",path=\"/api/v1/status\"}", "30">>,
       <<>>,
       <<"#", "HELP", "app_request_duration_seconds", "Request", "latency">>,
       <<"#", "TYPE", "app_request_duration_seconds", "histogram">>,
       <<"app_request_duration_seconds_bucket{le=\"0.1\"}", "95">>,
       <<"app_request_duration_seconds_bucket{le=\"0.5\"}", "98">>,
       <<"app_request_duration_seconds_bucket{le=\"1.0\"}", "100">>,
       <<>>,
       <<"#", "HELP", "app_info", "Application", "info">>,
       <<"#", "TYPE", "app_info", "gauge">>,
       <<"app_info{app=\"kubernetes-platform-stack\",version=\"1.0.0\",environment=\"unknown\"}", "1">> >>

(* the text of a sequence of lines: the words of each line, then a newline *)
RECURSIVE Text(_)
Text(lines) ==
    IF lines = <<>> THEN <<>>
    ELSE [i \in 1..Len(Head(lines)) |-> Word(Head(lines)[i])] \o <<NL>> \o Text(Tail(lines))

(* the text returned without its Content-Type header *)
metrics_Mut ==
    Response(200, "text/html; charset=utf-8", Text(metrics_data))

metrics ==
    Response(200, "text/plain", Text(metrics_data))

(* config reads the environment twice, one variable after the other *)
config_port == getenv("PORT", Num(DefaultPort))
config_log_level == getenv("LOG_LEVEL", Str("INFO"))
config_return(p, l, t) ==
    jsonify(Obj([app |-> Str(APP_NAME),
                 version |-> Str(APP_VERSION),
                 environment |-> Str(ENVIRONMENT),
                 port |-> p,
                 log_level |-> l,
                 timestamp |-> Str(isoformat(t))]), 200)

(* the whole view *)
config(t) == config_return(config_port, config_log_level, t)

(* the 404 handler returning its body without the status *)
not_found_Mut ==
    jsonify(Obj([error |-> Str("not found")]), 200)

(* Error handlers *)
not_found ==
    jsonify(Obj([error |-> Str("not found")]), 404)

(* str(error) of the InternalServerError that wraps the exception the view *)
(* raised: "<code> <name>: <description>", not the exception's own text    *)
InternalServerErrorText ==
    "500 Internal Server Error: The server encountered an internal error and was unable to complete your request. Either the server is overloaded or there is an error in the application."
internal_error ==
    [resp |-> jsonify(Obj([error |-> Str("internal server error")]), 500),
     log |-> Log("ERROR", <<"Internal error", InternalServerErrorText>>)]

(* Flask.log_exception, called before the handler for 500 *)
log_exception(req) == Log("ERROR", <<"Exception on">> \o req.path \o <<req.method>>)

(* Responses the framework makes itself: no handler is registered for them *)
MethodNotAllowedResponse ==
    Response(405, "text/html; charset=utf-8", <<Html("405 Method Not Allowed")>>)
RequestRedirectResponse ==
    Response(308, "text/html; charset=utf-8", <<Html("Redirecting...")>>)
OptionsResponse ==
    Response(200, "text/html; charset=utf-8", <<>>)

(* Response.get_wsgi_response: the answer to a HEAD request is sent        *)
(* without its body                                                        *)
get_wsgi_response(req, resp) ==
    IF req.method = "HEAD" THEN Response(resp.status, resp.ctype, <<>>) ELSE resp

----------------------------------------------------------------------------
(* Request hooks *)

log_request(req) == Log("DEBUG", <<req.method>> \o req.path)

log_response(resp) == Log("DEBUG", <<"Response", ToString(resp.status)>>)

(* Views that read nothing but the clock and the module globals *)
view(endpoint, t) ==
    CASE endpoint = "health" -> health(t)
      [] endpoint = "ready" -> ready(t)
      [] endpoint = "status" -> status(t)
      [] endpoint = "metrics" -> metrics

(* What a step of a request leaves in its slot: where the request stands,  *)
(* the response if there is one, the view's locals (data: the value echo   *)
(* parsed; read: the environment variables config has read, with the       *)
(* values it got; exc: the text of an exception that left the view), and   *)
(* the log records of the step.                                            *)
NoReads == [k \in {} |-> Unset]
Outcome(pc, resp, data, read, exc, log) ==
    [pc |-> pc, resp |-> resp, data |-> data, read |-> read, exc |-> exc, log |-> log]
Responded(resp, log) == Outcome("responded", resp, None, NoReads, "", log)

(* Flask.dispatch_request up to the view's first call that reads outside   *)
(* the request: the routing outcome is raised or answered, OPTIONS is      *)
(* answered by the framework, a view is entered.                           *)
dispatch_request(req, t) ==
    LET m == match(req.method, req.path) IN
    CASE m.kind = "NotFound" -> Responded(not_found, <<>>)
      [] m.kind = "MethodNotAllowed" -> Responded(MethodNotAllowedResponse, <<>>)
      [] m.kind = "RequestRedirect" -> Responded(RequestRedirectResponse, <<>>)
      [] m.kind = "endpoint" /\ req.method = "OPTIONS" -> Responded(OptionsResponse, <<>>)
      [] m.kind = "endpoint" /\ req.method # "OPTIONS" ->
           CASE m.endpoint = "static" -> Responded(not_found, <<>>)
             [] m.endpoint = "echo" ->
                  LET a == echo_try(req) IN
                  IF a.raised # ""
                  THEN Responded(echo_except(a.raised).resp, echo_except(a.raised).log)
                  ELSE Outcome("echo_parsed", NoResponse, a.data, NoReads, "", a.log)
             [] m.endpoint = "config" ->
                  Outcome("config_port", NoResponse, None,
                          [k \in {"PORT"} |-> config_port], "", <<>>)
             [] m.endpoint = "metrics" -> Responded(metrics, <<>>)
             [] OTHER ->
                  IF req.fault
                  THEN Outcome("raised", NoResponse, None, NoReads, FaultText, <<>>)
                  ELSE Responded(view(m.endpoint, t), <<>>)

----------------------------------------------------------------------------
(* Inputs *)

Methods == {"GET", "HEAD", "POST", "OPTIONS", "DELETE"}

DefinedPaths == {<<"health">>, <<"ready">>, <<"api", "v1", "status">>,
                 <<"api", "v1", "echo">>, <<"metrics">>, <<"api", "v1", "config">>}
EchoPath == <<"api", "v1", "echo">>
Paths == DefinedPaths \cup
         {<<"nonexistent">>, <<"static", "app.js">>, <<"api", "", "v1", "status">>}

ContentTypes == {"", "application/json"}

TestData == Obj([message |-> Str("test"), value |-> Num(123)])

(* v inside d arrays, and inside d objects *)
RECURSIVE Nest(_, _)
Nest(v, d) == IF d = 0 THEN v ELSE Arr(<<Nest(v, d - 1)>>)
RECURSIVE NestObj(_, _)
NestObj(v, d) == IF d = 0 THEN v ELSE Obj([a |-> NestObj(v, d - 1)])

Bodies == {dumps(TestData), <<Junk("invalid")>>, dumps(Nest(Num(1), LoadsDepth))}

(* whether a request reaches a view function in which a fault can occur:  *)
(* one that calls utcnow and jsonify.  metrics returns a literal and calls *)
(* nothing that can raise.                                                 *)
RunsView(method, path) ==
    LET m == match(method, path) IN
    /\ m.kind = "endpoint"
    /\ method # "OPTIONS"
    /\ m.endpoint \notin {"static", "metrics"}

EchoPosts == {Request("POST", EchoPath, c, b, FALSE) : c \in ContentTypes, b \in Bodies}
Faulted(methods) ==
    {r \in {Request(m, p, "application/json", dumps(TestData), TRUE) :
                m \in methods, p \in DefinedPaths} : RunsView(r.method, r.path)}

(* Every method on every path, the echo posts, a fault in every view that  *)
(* can raise                                                               *)
RoutingRequests ==
    {Request(m, p, "", <<>>, FALSE) : m \in Methods, p \in Paths}
    \cup EchoPosts
    \cup Faulted(Methods)

(* The six routes, an unknown path, a method that is not allowed, the echo *)
(* posts, a fault in every view that can raise                             *)
Requests ==
    {Request("GET", p, "", <<>>, FALSE) : p \in DefinedPaths \cup {<<"nonexistent">>}}
    \cup {Request("POST", <<"health">>, "", <<>>, FALSE)}
    \cup {r \in EchoPosts : is_json(r.ctype) \/ r.body = <<Junk("invalid")>>}
    \cup Faulted({"GET", "POST"})

(* Requests that arrive beside the one in slot 1: the status view, a       *)
(* rejected echo and a request whose view function faults.                 *)
Background ==
    { Request("GET", <<"api", "v1", "status">>, "", <<>>, FALSE),
      Request("POST", EchoPath, "", <<Junk("invalid")>>, FALSE),
      Request("GET", <<"api", "v1", "status">>, "application/json", dumps(TestData), TRUE) }

SlotRequests(s) == IF s = 1 THEN Requests ELSE Background

(* Requests that any slot takes when all slots are alike *)
Concurrent ==
    { Request("GET", <<"ready">>, "", <<>>, FALSE),
      Request("GET", <<"api", "v1", "config">>, "", <<>>, FALSE),
      Request("GET", <<"api", "v1", "status">>, "", <<>>, TRUE),
      Request("POST", EchoPath, "application/json", dumps(TestData), FALSE) }

(* Echo inputs *)
Scalars == {Null, Bool(TRUE), Bool(FALSE), Num(0), Num(123), Num(-1), Str(""), Str("test")}
Keys == {"message", "value"}
Flat ==
    Scalars
    \cup {Arr(<<>>), Obj(<<>>)}
    \cup {Arr(<<x>>) : x \in Scalars}
    \cup {Arr(<<x, y>>) : x, y \in Scalars}
    \cup {Obj([k \in {key} |-> x]) : key \in Keys, x \in Scalars}
    \cup {Obj([message |-> x, value |-> y]) : x, y \in Scalars}
Nested ==
    {Arr(<<TestData, Arr(<<Num(1), Arr(<<>>)>>), Obj(<<>>)>>),
     Obj([data |-> TestData, items |-> Arr(<<Null, TestData>>)]),
     Obj([a |-> Obj([b |-> Obj([c |-> Arr(<<Str("deep")>>)])])]),
     Arr(<<Arr(<<Arr(<<Bool(FALSE)>>)>>), Str("x"), Num(7)>>)}
JsonValues == Flat \cup Nested

(* number literals with a fraction or an exponent, long integers *)
NumberBodies ==
    {<<FloatTok(x)>> : x \in {"1.5", "1e2", "100.0", "1e400", "-1e400"}}
    \cup {<<DigitsTok(int_max_str_digits)>>, <<DigitsTok(int_max_str_digits + 1)>>,
          <<Tok("["), FloatTok("1e400"), Tok("]")>>}

(* nesting around the depths at which the encoder and the scanner give up *)
DeepBodies ==
    {dumps(Nest(Num(1), d)) : d \in (DumpsDepth - 1)..(LoadsDepth + 1)}
    \cup {dumps(NestObj(Num(1), d)) : d \in (DumpsDepth - 1)..(LoadsDepth + 1)}

(* texts that are no JSON but that json.loads takes *)
ConstantBodies ==
    { <<Tok("NaN")>>, <<Tok("Infinity")>>, <<Tok("-Infinity")>>,
      <<Tok("["), Tok("NaN"), Tok("]")>>,
      <<Tok("{"), StrTok("value"), Tok(":"), Tok("-Infinity"), Tok("}")>> }

InvalidBodies ==
    { <<>>,
      <<Junk("invalid")>>,
      <<Tok("{")>>,
      <<Tok("["), NumTok(1), Tok(","), Tok("]")>>,
      <<Tok("["), NumTok(1)>>,
      <<Tok("{"), StrTok("a"), NumTok(1), Tok("}")>>,
      <<Tok("{"), NumTok(1), Tok(":"), NumTok(2), Tok("}")>>,
      <<Tok("{"), StrTok("a"), Tok(":"), Tok("}")>>,
      <<NumTok(1), NumTok(2)>>,
      <<Tok("null"), Tok(",")>>,
      <<Tok("]")>>,
      dumps(TestData) \o <<Tok("}")>> }

EchoContentTypes == ContentTypes \cup {"text/plain", "application/vnd.api+json"}
EchoRequests ==
    {Request("POST", EchoPath, c, b, FALSE) :
        c \in EchoContentTypes,
        b \in {dumps(v) : v \in JsonValues} \cup NumberBodies \cup DeepBodies
                \cup ConstantBodies \cup InvalidBodies}
    \cup {Request("POST", EchoPath, c, b, TRUE) :
            c \in EchoContentTypes, b \in {dumps(TestData), <<Junk("invalid")>>}}

----------------------------------------------------------------------------
(* Initial state: the module has been imported and __main__ has started    *)
(* the listener.                                                           *)

Slot(pc, req, resp, data, read, exc) ==
    [pc |-> pc, req |-> req, resp |-> resp, data |-> data, read |-> read, exc |-> exc]
Idle == Slot("idle", NoRequest, NoResponse, None, NoReads, "")

Init ==
    /\ environ \in Environs
    /\ startEnviron = environ
    /\ logLevel = getenv("LOG_LEVEL", Str("INFO"))[2]
    /\ ENVIRONMENT = getenv("ENVIRONMENT", Str("unknown"))[2]
    /\ port = int(getenv("PORT", Num(DefaultPort)))
    /\ inflight = [s \in Slots |-> Idle]
    /\ emitted = Log("INFO", <<"Starting", APP_NAME, APP_VERSION, ToString(port)>>)

(* A request arrives on a free connection; before_request runs. *)
Receive(s, r) ==
    /\ inflight[s].pc = "idle"
    /\ inflight' = [inflight EXCEPT ![s] = Slot("received", r, NoResponse, None, NoReads, "")]
    /\ emitted' = log_request(r)
    /\ UNCHANGED <<environ, startEnviron, ENVIRONMENT, logLevel, port>>

(* a config view that also writes the default port into os.environ *)
Dispatch_Mut(s, t) ==
    /\ inflight[s].pc = "received"
    /\ LET d == dispatch_request(inflight[s].req, t) IN
       /\ inflight' = [inflight EXCEPT ![s] =
                          Slot(d.pc, @.req, d.resp, d.data, d.read, d.exc)]
       /\ emitted' = d.log
       /\ environ' = IF d.pc = "config_port" /\ environ["PORT"] = Unset
                     THEN [environ EXCEPT !["PORT"] = Str("8080")]
                     ELSE environ
    /\ UNCHANGED <<startEnviron, ENVIRONMENT, logLevel, port>>

(* The request is dispatched: the routing outcome is answered, or the view *)
(* function runs up to its first read outside the request.                 *)
Dispatch(s, t) ==
    /\ inflight[s].pc = "received"
    /\ LET d == dispatch_request(inflight[s].req, t) IN
       /\ inflight' = [inflight EXCEPT ![s] =
                          Slot(d.pc, @.req, d.resp, d.data, d.read, d.exc)]
       /\ emitted' = d.log
    /\ UNCHANGED <<environ, startEnviron, ENVIRONMENT, logLevel, port>>

(* echo, after the value is logged: the clock is read and the answer made, *)
(* or the except clause answers.                                           *)
EchoReturn(s, t) ==
    /\ inflight[s].pc = "echo_parsed"
    /\ LET b == echo_return(inflight[s].data, inflight[s].req.fault, t) IN
       /\ inflight' = [inflight EXCEPT ![s] =
                          Slot("responded", @.req, b.resp, @.data, @.read, "")]
       /\ emitted' = b.log
    /\ UNCHANGED <<environ, startEnviron, ENVIRONMENT, logLevel, port>>

(* config, after PORT is read: LOG_LEVEL and the clock are read and the    *)
(* answer is made, unless a call raises (the view's locals go with it).    *)
ConfigReturn(s, t) ==
    /\ inflight[s].pc = "config_port"
    /\ LET p == inflight[s].read["PORT"]
           l == config_log_level
           read == [k \in {"PORT", "LOG_LEVEL"} |-> IF k = "PORT" THEN p ELSE l]
       IN inflight' = [inflight EXCEPT ![s] =
              IF @.req.fault
              THEN Slot("raised", @.req, NoResponse, None, NoReads, FaultText)
              ELSE Slot("responded", @.req, config_return(p, l, t), None, read, "")]
    /\ emitted' = <<>>
    /\ UNCHANGED <<environ, startEnviron, ENVIRONMENT, logLevel, port>>

(* An exception has left the view function: Flask logs it. *)
LogException(s) ==
    /\ inflight[s].pc = "raised"
    /\ inflight' = [inflight EXCEPT ![s].pc = "logged"]
    /\ emitted' = log_exception(inflight[s].req)
    /\ UNCHANGED <<environ, startEnviron, ENVIRONMENT, logLevel, port>>

(* The handler registered for 500 answers. *)
ErrorHandler(s) ==
    /\ inflight[s].pc = "logged"
    /\ inflight' = [inflight EXCEPT ![s] =
                       Slot("responded", @.req, internal_error.resp, @.data, @.read, @.exc)]
    /\ emitted' = internal_error.log
    /\ UNCHANGED <<environ, startEnviron, ENVIRONMENT, logLevel, port>>

(* after_request runs (it returns the response it is given) and the      *)
(* response is written to the client: get_wsgi_response.  The connection  *)
(* is free again.                                                          *)
Send(s) ==
    /\ inflight[s].pc = "responded"
    /\ emitted' = log_response(inflight[s].resp)
    /\ inflight' = [inflight EXCEPT ![s] = Idle]
    /\ UNCHANGED <<environ, startEnviron, ENVIRONMENT, logLevel, port>>

(* A variable of the process environment changes, at any moment. *)
SetEnv(k, v) ==
    /\ v # environ[k]
    /\ environ' = [environ EXCEPT ![k] = v]
    /\ emitted' = <<>>
    /\ UNCHANGED <<startEnviron, ENVIRONMENT, logLevel, port, inflight>>

Next ==
    \/ \E s \in Slots : \E r \in SlotRequests(s) : Receive(s, r)
    \/ \E s \in Slots, t \in Instants : Dispatch(s, t)
    \/ \E s \in Slots, t \in Instants : EchoReturn(s, t)
    \/ \E s \in Slots, t \in Instants : ConfigReturn(s, t)
    \/ \E s \in Slots : LogException(s)
    \/ \E s \in Slots : ErrorHandler(s)
    \/ \E s \in Slots : Send(s)
    \/ \E k \in EnvVars : \E v \in EnvValues(k) : SetEnv(k, v)

Spec == Init /\ [][Next]_vars

(* The echo endpoint alone, over the echo inputs, one request at a time. *)
NextEcho ==
    \/ \E r \in EchoRequests : Receive(1, r)
    \/ \E t \in Instants : Dispatch(1, t)
    \/ \E t \in Instants : EchoReturn(1, t)
    \/ Send(1)

SpecEcho == Init /\ [][NextEcho]_vars

(* Every method on every path, one request at a time. *)
NextRouting ==
    \/ \E r \in RoutingRequests : Receive(1, r)
    \/ \E t \in Instants : Dispatch(1, t)
    \/ \E t \in Instants : EchoReturn(1, t)
    \/ \E t \in Instants : ConfigReturn(1, t)
    \/ LogException(1)
    \/ ErrorHandler(1)
    \/ Send(1)
    \/ \E k \in EnvVars : \E v \in EnvValues(k) : SetEnv(k, v)

SpecRouting == Init /\ [][NextRouting]_vars

(* Every slot takes the same requests; the variables the views read from   *)
(* the environment change at any moment.                                   *)
NextConcurrent ==
    \/ \E s \in Slots : \E r \in Concurrent : Receive(s, r)
    \/ \E s \in Slots, t \in Instants : Dispatch(s, t)
    \/ \E s \in Slots, t \in Instants : EchoReturn(s, t)
    \/ \E s \in Slots, t \in Instants : ConfigReturn(s, t)
    \/ \E s \in Slots : LogException(s)
    \/ \E s \in Slots : ErrorHandler(s)
    \/ \E s \in Slots : Send(s)
    \/ \E k \in {"PORT", "LOG_LEVEL"} : \E v \in EnvValues(k) : SetEnv(k, v)

SpecConcurrent == Init /\ [][NextConcurrent]_vars

----------------------------------------------------------------------------
(* Observations of a request whose response is made, as the client reads   *)
(* what is written for it.  The client reads JSON by the grammar of        *)
(* RFC 8259: no NaN or Infinity, no limit of depth or length; a number     *)
(* literal stands for the number it spells.                                *)

Handled(s) == inflight[s].pc = "responded"
Req(s) == inflight[s].req
Resp(s) == get_wsgi_response(inflight[s].req, inflight[s].resp)

IsGet(s, path) == Handled(s) /\ Req(s).method = "GET" /\ Req(s).path = path
IsEchoPost(s) == Handled(s) /\ Req(s).method = "POST" /\ Req(s).path = EchoPath

(* the number a literal with fraction or exponent spells: an integer where *)
(* it is one, else the literal itself                                      *)
NumberOf(s) ==
    CASE s = "1e2" -> Num(100)
      [] s = "100.0" -> Num(100)
      [] OTHER -> <<"number", s>>

JsonOk(v, rest) == [ok |-> TRUE, val |-> v, rest |-> rest]
NoJson == [ok |-> FALSE, val |-> Null, rest |-> <<>>]

RECURSIVE JsonValue(_)
RECURSIVE JsonItems(_, _)
RECURSIVE JsonMembers(_, _)

JsonItems(toks, acc) ==
    LET r == JsonValue(toks) IN
    IF ~r.ok \/ r.rest = <<>> THEN NoJson
    ELSE IF Head(r.rest).k = "]" THEN JsonOk(Arr(Append(acc, r.val)), Tail(r.rest))
    ELSE IF Head(r.rest).k = "," THEN JsonItems(Tail(r.rest), Append(acc, r.val))
    ELSE NoJson

JsonMembers(toks, acc) ==
    IF Len(toks) < 2 \/ toks[1].k # "str" \/ toks[2].k # ":" THEN NoJson
    ELSE LET r == JsonValue(Tail(Tail(toks)))
             got == (toks[1].s :> r.val) @@ acc
         IN IF ~r.ok \/ r.rest = <<>> THEN NoJson
            ELSE IF Head(r.rest).k = "}" THEN JsonOk(Obj(got), Tail(r.rest))
            ELSE IF Head(r.rest).k = "," THEN JsonMembers(Tail(r.rest), got)
            ELSE NoJson

JsonValue(toks) ==
    IF toks = <<>> THEN NoJson
    ELSE LET t == Head(toks)
             rest == Tail(toks)
         IN CASE t.k = "null" -> JsonOk(Null, rest)
              [] t.k = "true" -> JsonOk(Bool(TRUE), rest)
              [] t.k = "false" -> JsonOk(Bool(FALSE), rest)
              [] t.k = "num" -> JsonOk(Num(t.n), rest)
              [] t.k = "digits" -> JsonOk(Long(t.n), rest)
              [] t.k = "float" -> JsonOk(NumberOf(t.s), rest)
              [] t.k = "str" -> JsonOk(Str(t.s), rest)
              [] t.k = "[" ->
                   IF rest # <<>> /\ Head(rest).k = "]" THEN JsonOk(Arr(<<>>), Tail(rest))
                   ELSE JsonItems(rest, <<>>)
              [] t.k = "{" ->
                   IF rest # <<>> /\ Head(rest).k = "}" THEN JsonOk(Obj(<<>>), Tail(rest))
                   ELSE JsonMembers(rest, <<>>)
              [] OTHER -> NoJson

(* a whole text read as JSON: [ok, val] *)
JsonText(toks) ==
    LET r == JsonValue(toks) IN
    IF r.ok /\ r.rest = <<>> THEN r ELSE NoJson

(* a response body read as JSON: [isobj, members], members the object's    *)
(* key -> value function (empty when the body is no JSON object)           *)
Json(resp) ==
    LET r == IF resp.ctype = "application/json" THEN JsonText(resp.body) ELSE NoJson
        isobj == r.ok /\ Tag(r.val) = "obj"
    IN [isobj |-> isobj, members |-> IF isobj THEN r.val[2] ELSE <<>>]
HasKey(j, k) == j.isobj /\ k \in DOMAIN j.members
IsJsonError(j, text) == j.isobj /\ j.members = [error |-> Str(text)]

(* a response without its timestamp *)
Content(resp) ==
    LET j == Json(resp) IN
    IF j.isobj
    THEN [status |-> resp.status, ctype |-> resp.ctype, text |-> <<>>,
          json |-> [k \in DOMAIN j.members \ {"timestamp"} |-> j.members[k]]]
    ELSE [status |-> resp.status, ctype |-> resp.ctype, text |-> resp.body,
          json |-> <<>>]

(* the rules a path matches, as sent or with its slashes merged *)
IsStaticPath(path) == Len(path) >= 2 /\ path[1] = "static" /\ path[2] # ""
PathRules(path) == {r \in url_map : RuleMatches(r, path)}
Unmatched(path) == PathRules(path) = {} /\ PathRules(MergeSlashes(path)) = {}
Matched(path) ==
    IF PathRules(path) # {} THEN PathRules(path) ELSE PathRules(MergeSlashes(path))
Accepted(method, path) == \E r \in Matched(path) : method \in RuleMethods(r)

----------------------------------------------------------------------------
(* C1: every valid JSON value B posted as the body of POST /api/v1/echo is *)
(* answered 200 with data deep-equal to B and message = "echo received".   *)
(* Read in the claim's favour: the body is sent as JSON (a JSON content    *)
(* type) and nothing but the body decides the outcome (no fault).          *)
C1_EchoReturnsPosted ==
    \A s \in Slots :
        (/\ IsEchoPost(s)
         /\ is_json(Req(s).ctype)
         /\ ~Req(s).fault
         /\ JsonText(Req(s).body).ok) =>
            LET j == Json(Resp(s)) IN
            /\ Resp(s).status = 200
            /\ HasKey(j, "data") /\ j.members["data"] = JsonText(Req(s).body).val
            /\ HasKey(j, "message") /\ j.members["message"] = Str("echo received")

(* C2: a POST /api/v1/echo whose body does not parse as JSON, whatever its *)
(* content type, is answered 400 or 415 with a JSON object holding an      *)
(* error key, never with a 200 echo.                                       *)
C2_NonJsonRejected ==
    \A s \in Slots :
        (IsEchoPost(s) /\ ~JsonText(Req(s).body).ok) =>
            LET j == Json(Resp(s)) IN
            /\ Resp(s).status \in {400, 415}
            /\ Resp(s).status # 200
            /\ HasKey(j, "error")
            /\ ~HasKey(j, "data")

(* C3, as stated: a request with any method to a path that is not one of   *)
(* the six defined routes is answered 404 with {error: "not found"}.       *)
C3_UndefinedPath404 ==
    \A s \in Slots :
        (Handled(s) /\ Req(s).path \notin DefinedPaths) =>
            /\ Resp(s).status = 404
            /\ IsJsonError(Json(Resp(s)), "not found")

(* C3, amended: a request with any method to a path that matches no URL    *)
(* rule, neither as sent nor after runs of slashes are merged, is answered *)
(* 404 with the JSON body {error: "not found"}; to HEAD the same status    *)
(* and content type are sent without the body.  The rules are the six      *)
(* routes and the built-in /static/<path:filename> rule, under which a GET *)
(* or HEAD (no static file exists) gets the same answer.                   *)
C3_UnmatchedPath404 ==
    \A s \in Slots :
        (/\ Handled(s)
         /\ \/ Unmatched(Req(s).path)
            \/ IsStaticPath(Req(s).path) /\ Req(s).method \in {"GET", "HEAD"}) =>
            /\ Resp(s).status = 404
            /\ Resp(s).ctype = "application/json"
            /\ IF Req(s).method = "HEAD"
               THEN Resp(s).body = <<>>
               ELSE IsJsonError(Json(Resp(s)), "not found")

C3_Witness ==
    \E s \in Slots :
        /\ Handled(s)
        /\ Req(s).method = "POST"
        /\ Req(s).path = <<"nonexistent">>
        /\ Resp(s).status = 404
        /\ IsJsonError(Json(Resp(s)), "not found")
        /\ environ # startEnviron

(* C4: whenever a view function raises an unexpected fault, the echo view  *)
(* included, the response is 500 with the fixed body                       *)
(* {error: "internal server error"} and the error's text is not in it.     *)
C4_FaultIs500 ==
    \A s \in Slots :
        (Handled(s) /\ Req(s).fault) =>
            /\ Resp(s).status = 500
            /\ IsJsonError(Json(Resp(s)), "internal server error")
            /\ StrTok(FaultText) \notin {Resp(s).body[i] : i \in DOMAIN Resp(s).body}

(* C5: in every reachable state GET /health is answered 200 with status =  *)
(* "healthy" and a timestamp, and GET /ready 200 with ready = true and a   *)
(* timestamp, whatever was requested before or is being handled beside it  *)
(* (failed echo requests, 404s, faulted requests, environment changes).    *)
(* The probe request itself is one whose view function raises nothing.     *)
C5_ProbesAlwaysPass ==
    \A s \in Slots :
        /\ (IsGet(s, <<"health">>) /\ ~Req(s).fault) =>
              LET j == Json(Resp(s)) IN
              /\ Resp(s).status = 200
              /\ HasKey(j, "timestamp")
              /\ HasKey(j, "status")
              /\ j.members["status"] = Str("healthy")
        /\ (IsGet(s, <<"ready">>) /\ ~Req(s).fault) =>
              LET j == Json(Resp(s)) IN
              /\ Resp(s).status = 200
              /\ HasKey(j, "timestamp")
              /\ HasKey(j, "ready")
              /\ j.members["ready"] = Bool(TRUE)

C5_Witness ==
    \E s, o \in Slots :
        /\ IsGet(s, <<"ready">>) /\ ~Req(s).fault
        /\ Resp(s).status = 200
        /\ Json(Resp(s)).members["ready"] = Bool(TRUE)
        /\ Handled(o) /\ Req(o).fault /\ Resp(o).status = 500
        /\ environ # startEnviron

(* C6: GET /api/v1/status and GET /api/v1/config are answered 200 with     *)
(* app = "kubernetes-platform-stack", version = "1.0.0" and environment =  *)
(* the value ENVIRONMENT had at process start ("unknown" when it was       *)
(* unset), and the two endpoints report the same three values (for         *)
(* requests whose view function raises nothing).                           *)
InfoPaths == {<<"api", "v1", "status">>, <<"api", "v1", "config">>}
InfoKeys == {"app", "version", "environment"}
IsInfo(s) == Handled(s) /\ Req(s).method = "GET" /\ Req(s).path \in InfoPaths /\ ~Req(s).fault
Info(j) == [k \in InfoKeys |-> j.members[k]]

C6_StaticInfo ==
    /\ \A s \in Slots :
          IsInfo(s) =>
              LET j == Json(Resp(s)) IN
              /\ Resp(s).status = 200
              /\ \A k \in InfoKeys : HasKey(j, k)
              /\ j.members["app"] = Str("kubernetes-platform-stack")
              /\ j.members["version"] = Str("1.0.0")
              /\ j.members["environment"] =
                     IF startEnviron["ENVIRONMENT"] = Unset THEN Str("unknown")
                     ELSE startEnviron["ENVIRONMENT"]
    /\ \A s, o \in Slots :
          (s # o /\ IsInfo(s) /\ IsInfo(o)) => Info(Json(Resp(s))) = Info(Json(Resp(o)))

C6_Witness ==
    \E s, o \in Slots :
        /\ IsGet(s, <<"api", "v1", "status">>) /\ ~Req(s).fault
        /\ IsGet(o, <<"api", "v1", "config">>) /\ ~Req(o).fault
        /\ startEnviron["ENVIRONMENT"] = Unset
        /\ environ["ENVIRONMENT"] = Str("production")
        /\ Json(Resp(s)).members["environment"] = Str("unknown")

(* C7: the port and log_level of GET /api/v1/config are the values fixed   *)
(* at process start: port the integer the listener is bound to (8080 when  *)
(* PORT was unset), log_level the startup level ("INFO" by default),       *)
(* whatever the environment variables are when the request is handled.     *)
C7_ConfigFixedAtStart ==
    \A s \in Slots :
        (IsGet(s, <<"api", "v1", "config">>) /\ ~Req(s).fault) =>
            LET j == Json(Resp(s)) IN
            /\ HasKey(j, "port") /\ j.members["port"] = Num(port)
            /\ HasKey(j, "log_level") /\ j.members["log_level"] = Str(logLevel)

(* C8: GET /metrics is answered 200, text/plain, with the one constant     *)
(* exposition text, which holds the words HELP and app_requests_total,     *)
(* whatever was handled before and whatever the configuration (for a       *)
(* request whose view function raises nothing).                            *)
C8_MetricsConstant ==
    \A s \in Slots :
        (IsGet(s, <<"metrics">>) /\ ~Req(s).fault) =>
            /\ Resp(s).status = 200
            /\ Resp(s).ctype = "text/plain"
            /\ Resp(s).body = Text(metrics_data)
            /\ \E i \in DOMAIN Resp(s).body : Resp(s).body[i] = Word("HELP")
            /\ \E i \in DOMAIN Resp(s).body : Resp(s).body[i] = Word("app_requests_total")

C8_Witness ==
    \E s, o \in Slots :
        /\ IsGet(s, <<"metrics">>) /\ ~Req(s).fault
        /\ Resp(s).body = Text(metrics_data)
        /\ ENVIRONMENT = "production"
        /\ environ["ENVIRONMENT"] = Unset
        /\ Handled(o) /\ Resp(o).status = 400

(* C9: handling requests writes no shared state.  Every step of a request  *)
(* changes that request's own slot and nothing else: no other request, no  *)
(* module global, not the process environment.  Under any interleaving of  *)
(* the steps of concurrent requests, and of environment changes, the       *)
(* response sent is, its timestamp apart, the one the same request gets    *)
(* when its view runs alone in one piece in the environment it read; and   *)
(* two requests that are alike and read the same are answered alike,       *)
(* however their steps were interleaved.                                   *)
Alone(req) ==
    LET t == CHOOSE i \in Instants : TRUE
        m == match(req.method, req.path)
        answer ==
            IF m.kind # "endpoint" \/ req.method = "OPTIONS" \/ m.endpoint = "static"
            THEN dispatch_request(req, t).resp
            ELSE IF m.endpoint = "echo" THEN echo(req, t).resp
            ELSE IF m.endpoint = "metrics" THEN metrics
            ELSE IF req.fault THEN internal_error.resp
            ELSE IF m.endpoint = "config" THEN config(t)
            ELSE view(m.endpoint, t)
    IN get_wsgi_response(req, answer)

ReadIsCurrent(s) ==
    \A k \in DOMAIN inflight[s].read :
        inflight[s].read[k] = getenv(k, IF k = "PORT" THEN Num(DefaultPort) ELSE Str("INFO"))

OwnSlotOnly ==
    \A s \in Slots :
        inflight'[s] # inflight[s] =>
            /\ \A o \in Slots \ {s} : inflight'[o] = inflight[o]
            /\ environ' = environ
            /\ ENVIRONMENT' = ENVIRONMENT
            /\ logLevel' = logLevel
            /\ port' = port

AnsweredAsAlone ==
    /\ \A s \in Slots :
          (Handled(s) /\ ReadIsCurrent(s)) => Content(Resp(s)) = Content(Alone(Req(s)))
    /\ \A s, o \in Slots :
          (/\ Handled(s) /\ Handled(o)
           /\ Req(s) = Req(o)
           /\ inflight[s].read = inflight[o].read) => Content(Resp(s)) = Content(Resp(o))

C9_Independent == [][OwnSlotOnly]_vars /\ []AnsweredAsAlone

C9_Witness ==
    \E s, o \in Slots :
        /\ s # o
        /\ IsEchoPost(s) /\ Resp(s).status = 200
        /\ inflight[o].pc = "config_port"
        /\ inflight[o].read["PORT"] # config_port
        /\ environ # startEnviron

(* C10, as stated: every response has status 200, 400, 404 or 500; a       *)
(* request whose (method, path) pair is no route entry, such as            *)
(* POST /health or GET /api/v1/echo, gets a JSON body with an error key;   *)
(* 400 comes only from POST /api/v1/echo.                                  *)
RouteEntries ==
    UNION {{<<m, r.path>> : m \in r.methods} : r \in {q \in url_map : q.endpoint # "static"}}

=============================================================================
